---------------------------- MODULE Spec2Model ----------------------------
(***************************************************************************)
(* Canvas Grading Hub (src/latest.js): the Settings loader, the Canvas     *)
(* fetch helper, the Recent Submissions aggregation and the Missing        *)
(* Submissions report, as state machines over the upstream responses.      *)
(***************************************************************************)
EXTENDS Integers, Sequences, FiniteSets, TLC

VARIABLES
    op,             \* the menu operation that runs: "reload", "refresh", "missing"
    pc,             \* position of the running top-level function
    sheetCells,     \* the Settings sheet as the operator left it (input)
    settings,       \* what getSettings returned (or the error it threw)
    now,            \* Date.now() when the operation started, in ms
    courseNames,    \* fetchCanvasSubmissions_: courseNames, course id -> name
    ci,             \* 1-based index of the course being processed (i + 1)
    assignments,    \* assignment list of the course being processed
    ai,             \* 1-based index of the assignment being processed
    out,            \* fetchCourseSubmissions_: out
    all,            \* fetchCanvasSubmissions_: all
    failed,         \* history: the kinds of request failed (refresh: in the run;
                    \* missing: the course's roster, the latest submissions)
    requests,       \* number of upstream requests issued so far
    asmtSeen,       \* history: number of assignments upstream has listed
    expected,       \* history: the submissions seen that qualify for the report
    excluded,       \* history: the submissions seen that are not real ones
    courseChoice,   \* startMissingSubmissions: courseChoice
    rangeChoice,    \* startMissingSubmissions: rangeChoice
    courseList,     \* startMissingSubmissions: courseList
    maxAssignments, \* startMissingSubmissions: maxAssignments
    sheetRows,      \* the Missing Submissions sheet from row 5 on (out.nextRow - 5 rows)
    students,       \* appendMissingForCourse_: students
    submittedIds,   \* appendMissingForCourse_: submittedIds of the latest assignment
    processed,      \* startMissingSubmissions: processed
    elapsed,        \* Date.now() - START at the latest reading of the clock
    rawAssignments, \* history: the assignment list as upstream sent it
    realIds,        \* history: users with a real submission in the latest answer
    okAt,           \* history: the course index after which the caller last chose OK
    cancelled,      \* history: the caller has declined to continue
    dayTabs,        \* the spreadsheet's Day tabs, in tab order: [name, content]
    renameClash,    \* history: a rename or insert has targeted a name in use
    runs,           \* number of rotations (op "rotate") or calls (op "trigger") so far
    triggers,       \* ScriptApp.getProjectTriggers(): [handler, schedule, uid]
    response,       \* op "fetch": what UrlFetchApp.fetch answers
    result          \* op "fetch": what canvasFetch_ returned or threw

refreshVars == <<courseNames, out, all, expected, excluded>>

missingVars == <<courseChoice, rangeChoice, courseList, maxAssignments, sheetRows,
                 students, submittedIds, processed, elapsed, rawAssignments, realIds, okAt, cancelled>>

extraVars == <<dayTabs, renameClash, runs, triggers, response, result>>

vars == <<op, pc, sheetCells, settings, now, ci, assignments, ai, failed, requests,
          asmtSeen, refreshVars, missingVars, extraVars>>

---------------------------------------------------------------------------
(* Optional JSON fields: <<>> is absent (null / undefined), <<v>> is v.    *)
Absent == <<>>
Some(v) == <<v>>
Has(x) == Len(x) > 0
Val(x) == x[1]

Min(a, b) == IF a < b THEN a ELSE b

---------------------------------------------------------------------------
(* Strings are TLA+ strings, handled character by character.               *)

IsSpace(c) == c = " "

\* String.prototype.trim
RECURSIVE TrimLeft(_)
TrimLeft(s) ==
    IF Len(s) > 0 /\ IsSpace(SubSeq(s, 1, 1)) THEN TrimLeft(SubSeq(s, 2, Len(s))) ELSE s

RECURSIVE TrimRight(_)
TrimRight(s) ==
    IF Len(s) > 0 /\ IsSpace(SubSeq(s, Len(s), Len(s)))
    THEN TrimRight(SubSeq(s, 1, Len(s) - 1)) ELSE s

Trim(s) == TrimRight(TrimLeft(s))

StartsWith(s, p) == Len(s) >= Len(p) /\ SubSeq(s, 1, Len(p)) = p

\* .replace(/^https?:\/\//, '')
StripScheme(s) ==
    IF StartsWith(s, "https://") THEN SubSeq(s, 9, Len(s))
    ELSE IF StartsWith(s, "http://") THEN SubSeq(s, 8, Len(s))
    ELSE s

\* .replace(/\/$/, '')
StripTrailingSlash(s) ==
    IF Len(s) > 0 /\ SubSeq(s, Len(s), Len(s)) = "/" THEN SubSeq(s, 1, Len(s) - 1) ELSE s

\* .split(','): the pieces between the commas, empty pieces kept
RECURSIVE SplitFrom(_, _)
SplitFrom(s, cur) ==
    IF Len(s) = 0 THEN <<cur>>
    ELSE IF SubSeq(s, 1, 1) = ","
         THEN <<cur>> \o SplitFrom(SubSeq(s, 2, Len(s)), "")
         ELSE SplitFrom(SubSeq(s, 2, Len(s)), cur \o SubSeq(s, 1, 1))

SplitComma(s) == SplitFrom(s, "")

\* .map(s => s.trim()).filter(Boolean)
RECURSIVE TrimAndDropEmpty(_)
TrimAndDropEmpty(parts) ==
    IF parts = <<>> THEN <<>>
    ELSE LET t == Trim(Head(parts))
         IN  (IF t = "" THEN <<>> ELSE <<t>>) \o TrimAndDropEmpty(Tail(parts))

Digits == "0123456789"

IsDigit(c) == \E k \in 1..10 : SubSeq(Digits, k, k) = c
DigitVal(c) == (CHOOSE k \in 1..10 : SubSeq(Digits, k, k) = c) - 1

RECURSIVE DigitRun(_, _, _)
\* the longest run of leading digits: <<value, number of digits>>
DigitRun(s, acc, n) ==
    IF Len(s) > 0 /\ IsDigit(SubSeq(s, 1, 1))
    THEN DigitRun(SubSeq(s, 2, Len(s)), 10 * acc + DigitVal(SubSeq(s, 1, 1)), n + 1)
    ELSE <<acc, n>>

\* parseInt(v, 10): [nan |-> TRUE] when no digit can be read (also for an
\* undefined argument, which parses as the text "undefined")
ParseInt(cell) ==
    IF ~cell.present THEN [nan |-> TRUE, n |-> 0]
    ELSE LET t   == TrimLeft(cell.v)
             neg == StartsWith(t, "-")
             u   == IF neg \/ StartsWith(t, "+") THEN SubSeq(t, 2, Len(t)) ELSE t
             r   == DigitRun(u, 0, 0)
         IN  IF r[2] = 0 THEN [nan |-> TRUE, n |-> 0]
             ELSE [nan |-> FALSE, n |-> IF neg THEN 0 - r[1] ELSE r[1]]

Upper == "ABCDEFGHIJKLMNOPQRSTUVWXYZ"
Lower == "abcdefghijklmnopqrstuvwxyz"

LowerChar(c) ==
    IF \E k \in 1..26 : SubSeq(Upper, k, k) = c
    THEN LET k == CHOOSE j \in 1..26 : SubSeq(Upper, j, j) = c IN SubSeq(Lower, k, k)
    ELSE c

RECURSIVE ToLowerCase(_)
ToLowerCase(s) ==
    IF Len(s) = 0 THEN ""
    ELSE LowerChar(SubSeq(s, 1, 1)) \o ToLowerCase(SubSeq(s, 2, Len(s)))

\* normalizeYesNo_
normalizeYesNo_(cell) ==
    IF ~cell.present \/ cell.v = "" THEN FALSE
    ELSE LET s == ToLowerCase(Trim(cell.v))
         IN  s = "yes" \/ s = "y" \/ s = "true"

---------------------------------------------------------------------------
(* getSettings.  A sheet cell is [present, v]: the row exists and holds the *)
(* text v.  The loop of lines 44-48 trims every value it reads.            *)

NoCell == [present |-> FALSE, v |-> ""]
Cell(v) == [present |-> TRUE, v |-> v]

\* settings[key] after the loop: undefined for a missing row, else trimmed
ReadCell(c) == IF c.present THEN Cell(Trim(c.v)) ELSE NoCell

\* !settings[key]
Falsy(c) == ~c.present \/ c.v = ""

HOURS_BACK_DEFAULT == 24

SettingsError(msg) ==
    [ok |-> FALSE, err |-> msg, baseUrl |-> "", apiToken |-> "", courseIds |-> <<>>,
     hoursBack |-> 0, showOnlyUngraded |-> FALSE, highlightLate |-> FALSE]

NoSettings == SettingsError("not loaded")

getSettings(cells) ==
    IF ~cells.exists THEN SettingsError("Settings tab not found")
    ELSE LET url     == ReadCell(cells.url)
             token   == ReadCell(cells.token)
             courses == ReadCell(cells.courses)
             hours   == ParseInt(ReadCell(cells.hours))
         IN  IF Falsy(url) \/ url.v = "yourschool.instructure.com"
             THEN SettingsError("Canvas Base URL")
             ELSE IF Falsy(token) \/ token.v = "PASTE_YOUR_TOKEN_HERE"
             THEN SettingsError("Canvas API Token")
             ELSE IF Falsy(courses)
             THEN SettingsError("Course IDs")
             ELSE [ok |-> TRUE, err |-> "",
                   baseUrl |-> StripTrailingSlash(StripScheme(url.v)),
                   apiToken |-> token.v,
                   courseIds |-> TrimAndDropEmpty(SplitComma(courses.v)),
                   hoursBack |-> IF hours.nan \/ hours.n = 0
                                 THEN HOURS_BACK_DEFAULT ELSE hours.n,
                   showOnlyUngraded |-> normalizeYesNo_(ReadCell(cells.ungraded)),
                   highlightLate |-> normalizeYesNo_(ReadCell(cells.late))]

---------------------------------------------------------------------------
(* Settings sheets the operator may have left.                             *)

UrlCells ==
    {NoCell, Cell(""), Cell("  "), Cell("yourschool.instructure.com"),
     Cell("canvas.edu"), Cell("https://canvas.edu/"), Cell(" http://canvas.edu"),
     Cell("https://"), Cell("/")}

TokenCells == {NoCell, Cell(""), Cell("PASTE_YOUR_TOKEN_HERE"), Cell("tok")}

CourseCells ==
    {NoCell, Cell(""), Cell(" "), Cell("101"), Cell("101, 102"), Cell("101,,102 ,"),
     Cell(","), Cell(" , ")}

HourCells == {NoCell, Cell("2"), Cell("abc"), Cell("0"), Cell("-5"), Cell("48h")}

YesNoCells == {NoCell, Cell("Yes"), Cell("no"), Cell(" TRUE ")}

NoSheet ==
    [exists |-> FALSE, url |-> NoCell, token |-> NoCell, courses |-> NoCell,
     hours |-> NoCell, ungraded |-> NoCell, late |-> NoCell]

AnySheets ==
    {NoSheet} \cup
    [exists : {TRUE}, url : UrlCells, token : TokenCells, courses : CourseCells,
     hours : HourCells, ungraded : YesNoCells, late : {NoCell}]

---------------------------------------------------------------------------
(* canvasFetch_.  An upstream answer is [code, body]; a body is empty,     *)
(* malformed, or JSON text holding a value.                                *)

EmptyBody == [kind |-> "empty", value |-> <<>>]
MalformedBody == [kind |-> "malformed", value |-> <<>>]
JsonBody(v) == [kind |-> "json", value |-> v]

Threw(what, code) == [threw |-> what, code |-> code, isNull |-> FALSE, value |-> <<>>]
Returned(isNull, v) == [threw |-> "none", code |-> 0, isNull |-> isNull, value |-> v]

canvasFetch_BodyFirst(resp) ==
    IF resp.body.kind = "empty" THEN Returned(TRUE, <<>>)
    ELSE IF resp.body.kind = "malformed" THEN Threw("decode", resp.code)
    ELSE IF resp.code = 401 \/ resp.code = 403 THEN Threw("auth", resp.code)
    ELSE IF resp.code < 200 \/ resp.code >= 300 THEN Threw("upstream", resp.code)
    ELSE Returned(FALSE, resp.body.value)

canvasFetch_(resp) ==
    IF resp.code = 401 \/ resp.code = 403 THEN Threw("auth", resp.code)
    ELSE IF resp.code < 200 \/ resp.code >= 300 THEN Threw("upstream", resp.code)
    ELSE IF resp.body.kind = "empty" THEN Returned(TRUE, <<>>)
    ELSE IF resp.body.kind = "malformed" THEN Threw("decode", resp.code)
    ELSE Returned(FALSE, resp.body.value)

\* canvasFetch_(...) || [] inside try { } catch { return [] }
FetchListOrEmpty(resp) ==
    LET r == canvasFetch_(resp)
    IN  IF r.threw # "none" \/ r.isNull THEN <<>> ELSE r.value

FailureResponses ==
    {[code |-> 401, body |-> EmptyBody], [code |-> 403, body |-> MalformedBody],
     [code |-> 500, body |-> MalformedBody], [code |-> 199, body |-> EmptyBody],
     [code |-> 300, body |-> EmptyBody], [code |-> 200, body |-> MalformedBody]}

EmptyResponses == {[code |-> 200, body |-> EmptyBody], [code |-> 299, body |-> EmptyBody]}

OkResponses(values) == [code : {200}, body : {JsonBody(v) : v \in values}]

Responses(values) == FailureResponses \cup EmptyResponses \cup OkResponses(values)

---------------------------------------------------------------------------
(* Upstream data.  Timestamps are whole hours; new Date(iso) is the        *)
(* instant in ms.                                                          *)

MS_PER_HOUR == 3600000

\* new Date(s.submitted_at), as its time value
DateOf(hour) == hour * MS_PER_HOUR

NowHour == 100
MaxAsmts == 2          \* assignments upstream lists over one run

Users == {1, 2}

\* the user object of include[]=user: user 1 has a name, user 2 has none
UserOf(id) == IF id = 1 THEN Some([name |-> "Ann"]) ELSE Absent

SubmittedChoices ==
    {Absent, Some(NowHour - 25), Some(NowHour - 24), Some(NowHour - 1)}

WorkflowStates == {"unsubmitted", "submitted", "graded"}

Submissions ==
    {[user_id |-> u, submitted_at |-> t, workflow_state |-> w, late |-> FALSE,
      user |-> UserOf(u)] : u \in Users, t \in SubmittedChoices, w \in WorkflowStates}

\* one submission per user, in user order
SubmissionLists ==
    UNION {{l \in [1..k -> Submissions] :
               \A j \in 1..(k - 1) : l[j].user_id < l[j + 1].user_id} :
           k \in 0..Cardinality(Users)}

CourseObjects == {[name |-> Absent], [name |-> Some("Algebra")]}

AsmtName(k) == "HW" \o SubSeq(Digits, k + 1, k + 1)

\* lists of at most n assignments of a course, created_at drawn from `created`
AssignmentLists(courseIdx, n, created) ==
    UNION {{[j \in 1..k |-> [id |-> 10 * courseIdx + j, name |-> AsmtName(j),
                             created_at |-> c[j]]] : c \in [1..k -> created]} :
           k \in 0..n}

---------------------------------------------------------------------------
(* Recent submissions: fetchCanvasSubmissions_ and what it calls.          *)

\* cutoff = new Date(Date.now() - settings.hoursBack * 60 * 60 * 1000)
Cutoff(st, t) == t - st.hoursBack * MS_PER_HOUR

FallbackName(courseId) == "Course " \o courseId

\* getCourseName_ inside the try/catch of its callers
CourseNameOrFallback(resp, courseId) ==
    LET r == canvasFetch_(resp)
    IN  IF r.threw # "none" \/ r.isNull THEN FallbackName(courseId)
        ELSE IF Has(r.value.name) /\ Val(r.value.name) # "" THEN Val(r.value.name)
        ELSE FallbackName(courseId)

\* if (!s.submitted_at || s.workflow_state === 'unsubmitted') return;
NotSubmitted(s) == ~Has(s.submitted_at) \/ s.workflow_state = "unsubmitted"

BeforeCutoff_Reversed(s, cutoff) == DateOf(Val(s.submitted_at)) > cutoff

\* if (submittedDate < cutoff) return;
BeforeCutoff(s, cutoff) == DateOf(Val(s.submitted_at)) < cutoff

HiddenAsGraded_Off(st, s) == FALSE

\* if (settings.showOnlyUngraded && s.workflow_state === 'graded') return;
HiddenAsGraded(st, s) == st.showOnlyUngraded /\ s.workflow_state = "graded"

SpeedGraderUrl(st, courseId, assignmentId, userId) ==
    <<st.baseUrl, courseId, assignmentId, userId>>

StudentName(s) ==
    IF Has(s.user) THEN Val(s.user).name ELSE "Unknown Student"

RecentRecord(st, courseId, asmt, courseName, s) ==
    [studentName |-> StudentName(s),
     courseName |-> courseName,
     assignmentName |-> asmt.name,
     submittedDate |-> DateOf(Val(s.submitted_at)),
     isLate |-> s.late,
     isGraded |-> s.workflow_state = "graded",
     speedGraderUrl |-> SpeedGraderUrl(st, courseId, asmt.id, s.user_id)]

RECURSIVE FilterSubmissions(_, _, _, _, _, _)
\* the arr.forEach of getAssignmentSubmissionsFiltered_
FilterSubmissions(st, courseId, asmt, courseName, cutoff, arr) ==
    IF arr = <<>> THEN <<>>
    ELSE LET s == Head(arr)
             rest == FilterSubmissions(st, courseId, asmt, courseName, cutoff, Tail(arr))
         IN  IF NotSubmitted(s) THEN rest
             ELSE IF BeforeCutoff(s, cutoff) THEN rest
             ELSE IF HiddenAsGraded(st, s) THEN rest
             ELSE <<RecentRecord(st, courseId, asmt, courseName, s)>> \o rest

getAssignmentSubmissionsFiltered_(st, courseId, asmt, courseName, cutoff, resp) ==
    FilterSubmissions(st, courseId, asmt, courseName, cutoff, FetchListOrEmpty(resp))

PushSubs_LostOnError(outSoFar, resp, subs) ==
    IF canvasFetch_(resp).threw # "none" THEN <<>> ELSE outSoFar \o subs

\* fetchCourseSubmissions_: out.push.apply(out, subs), after a fetch that
\* answered resp
PushSubs(outSoFar, resp, subs) == outSoFar \o subs

\* all.sort((a, b) => b.submittedDate - a.submittedDate)
CompareRecent(a, b) == b.submittedDate - a.submittedDate

---------------------------------------------------------------------------
(* History of what upstream answered, in the words of the report's rules.  *)

\* a real submission: its timestamp is present and it is not "unsubmitted"
RealSubmission(s) == Has(s.submitted_at) /\ s.workflow_state # "unsubmitted"

\* a submission the recent report has to show
Qualifies(st, t, s) ==
    /\ RealSubmission(s)
    /\ DateOf(Val(s.submitted_at)) >= t - st.hoursBack * MS_PER_HOUR
    /\ (st.showOnlyUngraded => s.workflow_state # "graded")

Answered(resp) == canvasFetch_(resp).threw = "none"

SeenQualifying(st, t, courseId, asmt, resp) ==
    LET arr == FetchListOrEmpty(resp)
    IN  {[url |-> SpeedGraderUrl(st, courseId, asmt.id, arr[j].user_id),
          submittedDate |-> DateOf(Val(arr[j].submitted_at))] :
         j \in {k \in 1..Len(arr) : Qualifies(st, t, arr[k])}}

SeenNotReal(st, courseId, asmt, resp) ==
    LET arr == FetchListOrEmpty(resp)
    IN  {SpeedGraderUrl(st, courseId, asmt.id, arr[j].user_id) :
         j \in {k \in 1..Len(arr) : ~RealSubmission(arr[k])}}

PlaceholderSheet ==
    [exists |-> TRUE, url |-> Cell("canvas.edu"), token |-> Cell("PASTE_YOUR_TOKEN_HERE"),
     courses |-> Cell("101"), hours |-> NoCell, ungraded |-> NoCell, late |-> NoCell]

---------------------------------------------------------------------------
(* Missing submissions: startMissingSubmissions and appendMissingForCourse_ *)

MAX_MS == 330000

EarlyMs == 1000        \* a clock reading well inside the budget
OverMs == 1            \* how far past the budget a late reading is

\* what Date.now() - START may read: early, exactly the budget, past it
ClockReadings == {EarlyMs, MAX_MS, MAX_MS + OverMs}

Row(kind, text, courseId, asmtId, studentId, created) ==
    [kind |-> kind, text |-> text, course |-> courseId, asmt |-> asmtId,
     student |-> studentId, created |-> created]

\* what an earlier run left on the sheet
StaleRow == Row("stale", "", "", 0, 0, Absent)

\* a roster entry as upstream sends it: user 1 has a name, user 2 only a
\* sortable name
RosterUser(id) ==
    [id |-> id, name |-> IF id = 1 THEN Some("Ann") ELSE Absent,
     sortable_name |-> IF id = 1 THEN Absent ELSE Some("Roe, Bo")]

RosterLists ==
    UNION {{l \in [1..k -> {RosterUser(u) : u \in Users}] :
               \A j \in 1..(k - 1) : l[j].id < l[j + 1].id} :
           k \in 0..Cardinality(Users)}

\* getCourseStudents_: arr.map(u => ({id: u.id,
\*     name: u.name || u.sortable_name || 'Unknown Student'}))
getCourseStudents_(resp) ==
    LET arr == FetchListOrEmpty(resp)
    IN  [j \in 1..Len(arr) |->
            [id |-> arr[j].id,
             name |-> IF Has(arr[j].name) /\ Val(arr[j].name) # ""
                      THEN Val(arr[j].name)
                      ELSE IF Has(arr[j].sortable_name) /\ Val(arr[j].sortable_name) # ""
                      THEN Val(arr[j].sortable_name)
                      ELSE "Unknown Student"]]

CreatedChoices == {Absent, Some(NowHour - 50), Some(NowHour - 10)}

\* raw submissions as the missing report reads them
RawSubmissionLists ==
    {l \in SubmissionLists :
        \A j \in 1..Len(l) : l[j].submitted_at \in {Absent, Some(NowHour - 1)}}

CompareCreated_Ascending(a, b) ==
    IF Has(a.created_at) /\ Has(b.created_at)
    THEN DateOf(Val(a.created_at)) - DateOf(Val(b.created_at))
    ELSE IF Has(a.created_at) THEN 1
    ELSE IF Has(b.created_at) THEN 0 - 1
    ELSE 0

\* (a, b) => bd - ad, an absent created_at counting as -Infinity: the
\* difference is +Infinity (1 here), -Infinity (-1 here) or NaN (0 to sort)
CompareCreated(a, b) ==
    IF Has(a.created_at) /\ Has(b.created_at)
    THEN DateOf(Val(b.created_at)) - DateOf(Val(a.created_at))
    ELSE IF Has(a.created_at) THEN 0 - 1
    ELSE IF Has(b.created_at) THEN 1
    ELSE 0

\* Array.prototype.sort(compare): stable; a compare result that is NaN
\* counts as 0; a result > 0 for (a, b) puts b before a

\* the compare function handed to sort at the two call sites
Comparator(site, a, b) ==
    IF site = "recent" THEN CompareRecent(a, b) ELSE CompareCreated(a, b)

RECURSIVE InsertSorted(_, _, _)
\* x goes after every element that does not compare greater than it
InsertSorted(site, x, t) ==
    IF t = <<>> THEN <<x>>
    ELSE IF Comparator(site, Head(t), x) > 0 THEN <<x>> \o t
         ELSE <<Head(t)>> \o InsertSorted(site, x, Tail(t))

RECURSIVE SortFrom(_, _, _)
SortFrom(site, sorted, rest) ==
    IF rest = <<>> THEN sorted
    ELSE SortFrom(site, InsertSorted(site, Head(rest), sorted), Tail(rest))

ArraySort(s, site) == SortFrom(site, <<>>, s)

\* Array.prototype.slice(0, n)
SliceFromStart(s, n) ==
    IF n < 0 THEN SubSeq(s, 1, Len(s) + n) ELSE SubSeq(s, 1, Min(n, Len(s)))

LimitAssignments_OffByOne(list, limit) ==
    IF limit.isAll THEN list ELSE SliceFromStart(list, limit.n + 1)

\* if (maxAssignments !== 'ALL') assignments = assignments.slice(0, maxAssignments)
LimitAssignments(list, limit) ==
    IF limit.isAll THEN list ELSE SliceFromStart(list, limit.n)

\* rangeChoice === 'ALL' ? 'ALL' : parseInt(rangeChoice, 10); NaN slices as 0
ParseRange(choice) ==
    IF choice = "ALL" THEN [isAll |-> TRUE, n |-> 0]
    ELSE LET r == ParseInt(Cell(choice))
         IN  [isAll |-> FALSE, n |-> IF r.nan THEN 0 ELSE r.n]

ReallySubmitted_TimestampOnly(s) == Has(s.submitted_at)

\* s && s.submitted_at && s.workflow_state !== 'unsubmitted'
ReallySubmitted(s) == Has(s.submitted_at) /\ s.workflow_state # "unsubmitted"

\* new Set(subs.filter(...).map(s => s.user_id))
SubmittedIdsOf(subs) ==
    {subs[j].user_id : j \in {k \in 1..Len(subs) : ReallySubmitted(subs[k])}}

MissingOf_IgnoresSubmitted(roster, ids) == roster

\* students.filter(stu => !submittedIds.has(stu.id))
MissingOf(roster, ids) == SelectSeq(roster, LAMBDA stu : stu.id \notin ids)

\* the rows appendMissingForCourse_ writes for one assignment
AssignmentRows(courseId, asmt, missing) ==
    IF missing = <<>>
    THEN <<Row("nomissing", asmt.name, courseId, asmt.id, 0, Absent)>>
    ELSE <<Row("title", asmt.name, courseId, asmt.id, 0, Absent)>> \o
         [j \in 1..Len(missing) |->
            Row("missing", missing[j].name, courseId, asmt.id, missing[j].id,
                asmt.created_at)]

NeedsDecision_AfterLastToo(ms, i, n) == ms > MAX_MS

\* Date.now() - START > MAX_MS && i < courseList.length - 1
NeedsDecision(ms, i, n) == ms > MAX_MS /\ i < n - 1

AfterAnswer_NoReturn(btn) == "course"

\* if (btn !== ui.Button.OK) { ...; return; }
AfterAnswer(btn) == IF btn = "OK" THEN "course" ELSE "cancelled"

MissingSheets ==
    {PlaceholderSheet,
     [exists |-> TRUE, url |-> Cell("canvas.edu"), token |-> Cell("tok"),
      courses |-> Cell("101,102,103"), hours |-> NoCell, ungraded |-> NoCell,
      late |-> NoCell]}

\* what the dialog, or another caller, passes as (courseChoice, rangeChoice)
DialogChoices ==
    {<<"", "1">>, <<"ALL", "">>, <<"ALL", "1">>,
     <<"102", "1">>, <<"102", "2">>, <<"102", "ALL">>}

---------------------------------------------------------------------------
(* The Day tabs: rotateDayTabs_.                                           *)

DayName(i) == "Day " \o SubSeq(Digits, i + 1, i + 1)

\* ss.getSheetByName(name): the index of the tab with that name, 0 for null
getSheetByName(tabs, name) ==
    IF \E k \in 1..Len(tabs) : tabs[k].name = name
    THEN CHOOSE k \in 1..Len(tabs) :
            tabs[k].name = name /\ \A j \in 1..(k - 1) : tabs[j].name # name
    ELSE 0

\* the progress of a rotation: the tabs, whether a call threw because its
\* target name was in use
Rotation(tabs, clash) == [tabs |-> tabs, clash |-> clash]

DeleteDay5_Kept(tabs) == tabs

\* const day5 = ss.getSheetByName('Day 5'); if (day5) ss.deleteSheet(day5);
DeleteDay5(tabs) ==
    LET k == getSheetByName(tabs, DayName(5))
    IN  IF k = 0 THEN tabs ELSE SubSeq(tabs, 1, k - 1) \o SubSeq(tabs, k + 1, Len(tabs))

\* if (sh) sh.setName('Day ' + (i + 1)); setName throws on a name in use
RenameDay(r, i) ==
    LET k == getSheetByName(r.tabs, DayName(i))
    IN  IF r.clash \/ k = 0 THEN r
        ELSE IF getSheetByName(r.tabs, DayName(i + 1)) # 0 THEN Rotation(r.tabs, TRUE)
        ELSE Rotation([r.tabs EXCEPT ![k].name = DayName(i + 1)], FALSE)

RECURSIVE RenameDownFrom(_, _)
\* for (let i = 4; i >= 1; i--) ...
RenameDownFrom(r, i) == IF i < 1 THEN r ELSE RenameDownFrom(RenameDay(r, i), i - 1)

\* ss.insertSheet('Day 1', 0), which throws on a name in use, then the
\* template and the rows of this run (content)
InsertDay1(r, content) ==
    IF r.clash THEN r
    ELSE IF getSheetByName(r.tabs, DayName(1)) # 0 THEN Rotation(r.tabs, TRUE)
    ELSE Rotation(<<[name |-> DayName(1), content |-> content]>> \o r.tabs, FALSE)

\* rotateDayTabs_ followed by populateDayTab_
rotateDayTabs_(tabs, content) ==
    InsertDay1(RenameDownFrom(Rotation(DeleteDay5(tabs), FALSE), 4), content)

\* the tabs 'Day i' for the days of a set, in day order, each holding the
\* content of an earlier refresh
TabsOf(days) ==
    LET RECURSIVE From(_)
        From(i) == IF i > 5 THEN <<>>
                   ELSE (IF i \in days THEN <<[name |-> DayName(i), content |-> i]>>
                         ELSE <<>>) \o From(i + 1)
    IN  From(1)

\* the content populateDayTab_ writes in the run numbered n
FreshContent(n) == 10 + n

Aborts_Never(st) == FALSE

\* the try/catch around getSettings(): the operation ends with an alert
Aborts(st) == ~st.ok

---------------------------------------------------------------------------
(* Project triggers: setupDailyTrigger.                                    *)

MaxTriggers == 3       \* triggers the project holds at the start
MaxCalls == 3          \* calls of setupDailyTrigger, refreshes of op "rotate"

Handlers == {"refreshSubmissions", "onEditHook"}

\* the trigger lists a project may hold: uid is the trigger's unique id
TriggerLists ==
    UNION {{[j \in 1..k |-> [handler |-> h[j], schedule |-> "hourly", uid |-> j]] :
               h \in [1..k -> Handlers]} : k \in 0..MaxTriggers}

KeepTrigger_All(t) == TRUE

\* if (t.getHandlerFunction() === 'refreshSubmissions') ScriptApp.deleteTrigger(t)
KeepTrigger(t) == t.handler # "refreshSubmissions"

\* ScriptApp.newTrigger('refreshSubmissions').timeBased().everyDays(1).atHour(5).create()
NewDailyTrigger(n) ==
    [handler |-> "refreshSubmissions", schedule |-> "daily at 5", uid |-> 100 + n]

\* setupDailyTrigger, in its call numbered n
setupDailyTrigger(list, n) == Append(SelectSeq(list, KeepTrigger), NewDailyTrigger(n))

\* what UrlFetchApp.fetch may answer to one request
StatusCodes == {199, 200, 204, 299, 300, 401, 403, 404, 500}

AnyResponses ==
    [code : StatusCodes,
     body : {EmptyBody, MalformedBody} \cup {JsonBody(v) : v \in CourseObjects}]

---------------------------------------------------------------------------
(* The operations.                                                         *)

RunSheets ==
    {PlaceholderSheet,
     [exists |-> TRUE, url |-> Cell("https://canvas.edu/"), token |-> Cell("tok"),
      courses |-> Cell("101, 102"), hours |-> NoCell, ungraded |-> Cell("Yes"),
      late |-> NoCell],
     [exists |-> TRUE, url |-> Cell("canvas.edu"), token |-> Cell("tok"),
      courses |-> Cell("101,102"), hours |-> Cell("2"), ungraded |-> NoCell,
      late |-> Cell("yes")],
     [exists |-> TRUE, url |-> Cell("canvas.edu"), token |-> Cell("tok"),
      courses |-> Cell(","), hours |-> NoCell, ungraded |-> NoCell, late |-> NoCell]}

\* the request kinds failed so far, after `what` got the answer resp
FailedAfter(what, resp) ==
    LET r == canvasFetch_(resp)
    IN  IF r.threw = "none" THEN failed ELSE failed \cup {what}

Init ==
    /\ op \in {"reload", "refresh", "missing", "dialog", "rotate", "trigger", "fetch"}
    /\ pc = "start"
    /\ sheetCells \in (IF op = "reload" THEN AnySheets
                       ELSE IF op = "refresh" THEN RunSheets
                       ELSE IF op \in {"missing", "dialog"} THEN MissingSheets
                       ELSE {NoSheet})
    /\ settings = NoSettings
    /\ now = NowHour * MS_PER_HOUR
    /\ courseNames = <<>>
    /\ ci = 1
    /\ assignments = <<>>
    /\ ai = 1
    /\ out = <<>>
    /\ all = <<>>
    /\ failed = {}
    /\ requests = 0
    /\ asmtSeen = 0
    /\ expected = {}
    /\ excluded = {}
    /\ \E choice \in (IF op = "missing" THEN DialogChoices ELSE {<<"", "">>}) :
          courseChoice = choice[1] /\ rangeChoice = choice[2]
    /\ courseList = <<>>
    /\ maxAssignments = [isAll |-> TRUE, n |-> 0]
    /\ sheetRows = <<StaleRow>>
    /\ students = <<>>
    /\ submittedIds = {}
    /\ processed = 0
    /\ elapsed = 0
    /\ rawAssignments = <<>>
    /\ realIds = {}
    /\ okAt = 0
    /\ cancelled = FALSE
    /\ dayTabs \in (IF op = "rotate" THEN {TabsOf(d) : d \in SUBSET (1..5)}
                    ELSE {TabsOf({1, 3, 5})})
    /\ renameClash = FALSE
    /\ runs = 0
    /\ triggers \in (IF op = "trigger" THEN TriggerLists ELSE {<<>>})
    /\ response \in (IF op = "fetch" THEN AnyResponses ELSE {[code |-> 0, body |-> EmptyBody]})
    /\ result = Returned(TRUE, <<>>)

\* reloadSettings: getSettings, then the summary or the error alert
ReloadSettings ==
    /\ op = "reload" /\ pc = "start"
    /\ settings' = getSettings(sheetCells)
    /\ pc' = "done"
    /\ UNCHANGED <<op, sheetCells, now, ci, assignments, ai, failed, requests,
                   asmtSeen, refreshVars, missingVars>>
    /\ UNCHANGED extraVars

\* refreshSubmissions up to the first upstream request
RefreshStart ==
    /\ op = "refresh" /\ pc = "start"
    /\ LET st == getSettings(sheetCells)
       IN  /\ settings' = st
           /\ pc' = IF Aborts(st) THEN "error"
                    ELSE IF st.courseIds = <<>> THEN "sort" ELSE "names"
    /\ UNCHANGED <<op, sheetCells, now, ci, assignments, ai, failed, requests,
                   asmtSeen, refreshVars, missingVars>>
    /\ UNCHANGED extraVars

\* fetchCanvasSubmissions_, first loop: one course name
PreloadCourseName ==
    /\ op = "refresh" /\ pc = "names"
    /\ \E resp \in Responses(CourseObjects) :
          LET id == settings.courseIds[ci]
          IN  /\ courseNames' = (id :> CourseNameOrFallback(resp, id)) @@ courseNames
              /\ failed' = FailedAfter("name", resp)
    /\ requests' = requests + 1
    /\ IF ci < Len(settings.courseIds)
       THEN ci' = ci + 1 /\ pc' = pc
       ELSE ci' = 1 /\ pc' = "assignments"
    /\ UNCHANGED <<op, sheetCells, settings, now, assignments, ai, out, all,
                   asmtSeen, expected, excluded, missingVars>>
    /\ UNCHANGED extraVars

\* where the second loop goes after the course at index ci
AfterCourse == IF ci < Len(settings.courseIds) THEN "assignments" ELSE "sort"

\* fetchCourseSubmissions_: getAssignments_ of the course at index ci; a course
\* without assignments is finished at once
GetAssignments ==
    /\ op = "refresh" /\ pc = "assignments"
    /\ \E resp \in Responses(AssignmentLists(ci, MaxAsmts - asmtSeen, {Absent})) :
          LET list == FetchListOrEmpty(resp)
          IN  /\ assignments' = list
              /\ asmtSeen' = asmtSeen + Len(list)
              /\ failed' = FailedAfter("assignments", resp)
              /\ IF list = <<>>
                 THEN pc' = AfterCourse /\ ci' = ci + 1
                 ELSE pc' = "subs" /\ ci' = ci
    /\ requests' = requests + 1
    /\ ai' = 1
    /\ out' = <<>>
    /\ UNCHANGED <<op, sheetCells, settings, now, courseNames, all, expected, excluded,
                   missingVars>>
    /\ UNCHANGED extraVars

\* fetchCourseSubmissions_: one turn of assignments.forEach; after the last
\* assignment the course's records are pushed onto all
GetSubmissions ==
    /\ op = "refresh" /\ pc = "subs"
    /\ \E resp \in Responses(SubmissionLists) :
          LET id   == settings.courseIds[ci]
              asmt == assignments[ai]
              subs == getAssignmentSubmissionsFiltered_(
                          settings, id, asmt, courseNames[id], Cutoff(settings, now), resp)
              out2 == PushSubs(out, resp, subs)
          IN  /\ failed' = FailedAfter("submissions", resp)
              /\ expected' = expected \cup SeenQualifying(settings, now, id, asmt, resp)
              /\ excluded' = excluded \cup SeenNotReal(settings, id, asmt, resp)
              /\ IF ai < Len(assignments)
                 THEN /\ ai' = ai + 1 /\ out' = out2
                      /\ UNCHANGED <<all, ci, pc>>
                 ELSE /\ ai' = 1 /\ out' = <<>>
                      /\ all' = all \o out2
                      /\ pc' = AfterCourse /\ ci' = ci + 1
    /\ requests' = requests + 1
    /\ UNCHANGED <<op, sheetCells, settings, now, courseNames, assignments, asmtSeen,
                   missingVars>>
    /\ UNCHANGED extraVars

\* fetchCanvasSubmissions_: all.sort(...); return all
SortAndReturn ==
    /\ op = "refresh" /\ pc = "sort"
    /\ all' = ArraySort(all, "recent")
    /\ pc' = "done"
    /\ UNCHANGED <<op, sheetCells, settings, now, courseNames, ci, assignments, ai, out,
                   failed, requests, asmtSeen, expected, excluded, missingVars>>
    /\ UNCHANGED extraVars

\* startMissingSubmissions up to the loop over courseList
MissingStart ==
    /\ op = "missing" /\ pc = "start"
    /\ IF courseChoice = "" \/ rangeChoice = ""
       THEN /\ pc' = "rejected"
            /\ UNCHANGED <<settings, courseList, maxAssignments, sheetRows>>
       ELSE LET st == getSettings(sheetCells)
                list == IF courseChoice = "ALL" THEN st.courseIds ELSE <<courseChoice>>
            IN  /\ settings' = st
                /\ IF Aborts(st)
                   THEN /\ pc' = "error"
                        /\ UNCHANGED <<courseList, maxAssignments, sheetRows>>
                   ELSE /\ courseList' = list
                        /\ maxAssignments' = ParseRange(rangeChoice)
                        /\ sheetRows' = <<>>
                        /\ pc' = IF list = <<>> THEN "done" ELSE "course"
    /\ UNCHANGED <<op, sheetCells, now, ci, assignments, ai, failed, requests, asmtSeen,
                   refreshVars, courseChoice, rangeChoice, students, submittedIds,
                   processed, elapsed, rawAssignments, realIds, okAt,
                   cancelled>>
    /\ UNCHANGED extraVars

\* appendMissingForCourse_: the course name and the divider row
MissingCourseName ==
    /\ op = "missing" /\ pc = "course"
    /\ \E resp \in Responses(CourseObjects) :
          LET id == courseList[ci]
          IN  /\ sheetRows' = Append(sheetRows,
                     Row("course", CourseNameOrFallback(resp, id), id, 0, 0, Absent))
    /\ requests' = requests + 1
    /\ pc' = "roster"
    /\ UNCHANGED <<op, sheetCells, settings, now, ci, assignments, ai, failed, asmtSeen,
                   refreshVars, courseChoice, rangeChoice, courseList, maxAssignments,
                   students, submittedIds, processed, elapsed, rawAssignments, realIds, okAt, cancelled>>
    /\ UNCHANGED extraVars

\* appendMissingForCourse_: const students = getCourseStudents_(...)
MissingRoster ==
    /\ op = "missing" /\ pc = "roster"
    /\ \E resp \in Responses(RosterLists) :
          /\ students' = getCourseStudents_(resp)
          /\ failed' = FailedAfter("roster", resp)
    /\ requests' = requests + 1
    /\ pc' = "list"
    /\ UNCHANGED <<op, sheetCells, settings, now, ci, assignments, ai, asmtSeen,
                   refreshVars, courseChoice, rangeChoice, courseList, maxAssignments,
                   sheetRows, submittedIds, processed, elapsed, rawAssignments, realIds, okAt, cancelled>>
    /\ UNCHANGED extraVars

\* appendMissingForCourse_: getAssignments_, sort, slice, and the row and the
\* early return of an empty selection
MissingAssignments ==
    /\ op = "missing" /\ pc = "list"
    /\ \E resp \in Responses(AssignmentLists(ci, MaxAsmts - asmtSeen, CreatedChoices)) :
          LET raw  == FetchListOrEmpty(resp)
              kept == LimitAssignments(ArraySort(raw, "created"), maxAssignments)
          IN  /\ rawAssignments' = raw
              /\ asmtSeen' = asmtSeen + Len(raw)
              /\ assignments' = kept
              /\ IF kept = <<>>
                 THEN /\ sheetRows' = Append(sheetRows,
                             Row("noassignments", "", courseList[ci], 0, 0, Absent))
                      /\ pc' = "courseend"
                 ELSE /\ sheetRows' = sheetRows
                      /\ pc' = "raw"
    /\ requests' = requests + 1
    /\ ai' = 1
    /\ UNCHANGED <<op, sheetCells, settings, now, ci, failed, refreshVars, courseChoice,
                   rangeChoice, courseList, maxAssignments, students, submittedIds,
                   processed, elapsed, realIds, okAt, cancelled>>
    /\ UNCHANGED extraVars

\* appendMissingForCourse_: one turn of assignments.forEach; after the last
\* assignment the blank spacer row
MissingSubmissions ==
    /\ op = "missing" /\ pc = "raw"
    /\ \E resp \in Responses(RawSubmissionLists) :
          LET asmt    == assignments[ai]
              subs    == FetchListOrEmpty(resp)
              ids     == SubmittedIdsOf(subs)
              missing == MissingOf(students, ids)
              rows    == AssignmentRows(courseList[ci], asmt, missing)
          IN  /\ submittedIds' = ids
              /\ realIds' = {subs[j].user_id :
                               j \in {k \in 1..Len(subs) : RealSubmission(subs[k])}}
              /\ failed' = (failed \ {"submissions"}) \cup
                            (IF Answered(resp) THEN {} ELSE {"submissions"})
              /\ IF ai < Len(assignments)
                 THEN /\ sheetRows' = sheetRows \o rows
                      /\ ai' = ai + 1 /\ pc' = pc
                 ELSE /\ sheetRows' = (sheetRows \o rows) \o
                                      <<Row("blank", "", "", 0, 0, Absent)>>
                      /\ ai' = ai /\ pc' = "courseend"
    /\ requests' = requests + 1
    /\ UNCHANGED <<op, sheetCells, settings, now, ci, assignments, asmtSeen, refreshVars,
                   courseChoice, rangeChoice, courseList, maxAssignments, students,
                   processed, elapsed, rawAssignments, okAt, cancelled>>
    /\ UNCHANGED extraVars

\* startMissingSubmissions: appendMissingForCourse_ has returned (its locals
\* are gone); processed++ and the time check, the clock reading ms by now
CourseDone ==
    /\ op = "missing" /\ pc = "courseend"
    /\ \E ms \in {t \in ClockReadings : t >= elapsed} :
          /\ elapsed' = ms
          /\ IF NeedsDecision(ms, ci - 1, Len(courseList))
             THEN pc' = "prompt" /\ ci' = ci
             ELSE IF ci < Len(courseList)
             THEN pc' = "course" /\ ci' = ci + 1
             ELSE pc' = "done" /\ ci' = ci
    /\ processed' = processed + 1
    /\ assignments' = <<>> /\ ai' = 1
    /\ students' = <<>> /\ submittedIds' = {}
    /\ rawAssignments' = <<>> /\ realIds' = {}
    /\ failed' = {}
    /\ UNCHANGED <<op, sheetCells, settings, now, requests, asmtSeen, refreshVars,
                   courseChoice, rangeChoice, courseList, maxAssignments, sheetRows,
                   okAt, cancelled>>
    /\ UNCHANGED extraVars

\* startMissingSubmissions: the caller answers the "Partial run complete" alert
AnswerDecision ==
    /\ op = "missing" /\ pc = "prompt"
    /\ \E btn \in {"OK", "CANCEL", "CLOSE"} :
          LET next == AfterAnswer(btn)
          IN  /\ pc' = next
              /\ IF next = "course"
                 THEN ci' = ci + 1 /\ processed' = 0
                 ELSE ci' = ci /\ processed' = processed
              /\ okAt' = IF btn = "OK" THEN ci ELSE okAt
              /\ cancelled' = (btn # "OK")
    /\ UNCHANGED <<op, sheetCells, settings, now, assignments, ai, failed, requests,
                   asmtSeen, refreshVars, courseChoice, rangeChoice, courseList,
                   maxAssignments, sheetRows, students, submittedIds, elapsed,
                   rawAssignments, realIds>>
    /\ UNCHANGED extraVars

\* refreshSubmissions after fetchCanvasSubmissions_ returned: the alert of an
\* empty result, or rotateDayTabs_ and populateDayTab_
FinishRefresh ==
    /\ op = "refresh" /\ pc = "done"
    /\ IF all = <<>>
       THEN /\ pc' = "empty"
            /\ UNCHANGED <<dayTabs, renameClash, runs>>
       ELSE LET r == rotateDayTabs_(dayTabs, FreshContent(runs + 1))
            IN  /\ dayTabs' = r.tabs
                /\ renameClash' = r.clash
                /\ runs' = runs + 1
                /\ pc' = IF r.clash THEN "failed" ELSE "shown"
    /\ UNCHANGED <<op, sheetCells, settings, now, ci, assignments, ai, failed, requests,
                   asmtSeen, refreshVars, missingVars, triggers, response, result>>

\* a later refreshSubmissions that found submissions, seen from the tabs
RefreshAgain ==
    /\ op = "rotate" /\ runs < MaxCalls /\ ~renameClash
    /\ LET r == rotateDayTabs_(dayTabs, FreshContent(runs + 1))
       IN  /\ dayTabs' = r.tabs
           /\ renameClash' = r.clash
    /\ runs' = runs + 1
    /\ UNCHANGED <<op, pc, sheetCells, settings, now, ci, assignments, ai, failed,
                   requests, asmtSeen, refreshVars, missingVars, triggers, response,
                   result>>

\* openMissingSubmissionsDialog up to the first upstream request
OpenDialog ==
    /\ op = "dialog" /\ pc = "start"
    /\ LET st == getSettings(sheetCells)
       IN  /\ settings' = st
           /\ pc' = IF Aborts(st) THEN "error"
                    ELSE IF st.courseIds = <<>> THEN "shown" ELSE "names"
    /\ UNCHANGED <<op, sheetCells, now, ci, assignments, ai, failed, requests,
                   asmtSeen, refreshVars, missingVars, extraVars>>

\* openMissingSubmissionsDialog: one turn of settings.courseIds.map, then the
\* dialog
DialogCourseName ==
    /\ op = "dialog" /\ pc = "names"
    /\ \E resp \in Responses(CourseObjects) :
          LET id == settings.courseIds[ci]
          IN  courseNames' = (id :> CourseNameOrFallback(resp, id)) @@ courseNames
    /\ requests' = requests + 1
    /\ IF ci < Len(settings.courseIds)
       THEN ci' = ci + 1 /\ pc' = pc
       ELSE ci' = ci /\ pc' = "shown"
    /\ UNCHANGED <<op, sheetCells, settings, now, assignments, ai, failed, out, all,
                   asmtSeen, expected, excluded, missingVars, extraVars>>

\* one call of setupDailyTrigger
SetupDailyTrigger ==
    /\ op = "trigger" /\ runs < MaxCalls
    /\ triggers' = setupDailyTrigger(triggers, runs + 1)
    /\ runs' = runs + 1
    /\ UNCHANGED <<op, pc, sheetCells, settings, now, ci, assignments, ai, failed,
                   requests, asmtSeen, refreshVars, missingVars, dayTabs, renameClash,
                   response, result>>

\* one call of canvasFetch_
CallCanvasFetch ==
    /\ op = "fetch" /\ pc = "start"
    /\ result' = canvasFetch_(response)
    /\ requests' = requests + 1
    /\ pc' = "done"
    /\ UNCHANGED <<op, sheetCells, settings, now, ci, assignments, ai, failed,
                   asmtSeen, refreshVars, missingVars, dayTabs, renameClash, runs,
                   triggers, response>>

Next ==
    \/ ReloadSettings
    \/ RefreshStart
    \/ PreloadCourseName
    \/ GetAssignments
    \/ GetSubmissions
    \/ SortAndReturn
    \/ MissingStart
    \/ MissingCourseName
    \/ MissingRoster
    \/ MissingAssignments
    \/ MissingSubmissions
    \/ CourseDone
    \/ AnswerDecision
    \/ FinishRefresh
    \/ RefreshAgain
    \/ OpenDialog
    \/ DialogCourseName
    \/ SetupDailyTrigger
    \/ CallCanvasFetch

Spec == Init /\ [][Next]_vars

---------------------------------------------------------------------------
(* Properties of the Recent Submissions aggregation.                       *)

\* the records collected so far: those of finished courses, then those of
\* the course in progress
Emitted == all \o out

\* C1: every record fetchCanvasSubmissions_ holds or returns was submitted at
\* or after now - hoursBack hours, and the returned sequence is ordered
\* non-increasing by submittedDate across all courses and assignments.
C1_WithinWindowAndSorted ==
    op = "refresh" =>
        /\ \A i \in 1..Len(Emitted) :
              Emitted[i].submittedDate >= now - settings.hoursBack * MS_PER_HOUR
        /\ pc = "done" =>
              \A i \in 1..Len(all) : \A j \in i..Len(all) :
                 all[i].submittedDate >= all[j].submittedDate

\* a returned list holding records of two courses, with different times
C1_Witness ==
    /\ op = "refresh" /\ pc = "done"
    /\ \E i \in 1..Len(all) : \E j \in 1..Len(all) :
          /\ all[i].speedGraderUrl[2] # all[j].speedGraderUrl[2]
          /\ all[i].submittedDate > all[j].submittedDate
    /\ \E i \in 1..Len(all) : all[i].submittedDate = now - settings.hoursBack * MS_PER_HOUR

\* C3: a submission without a timestamp, or marked unsubmitted, never has a
\* record in the recent report and never puts its user among the submitted
\* ids of the missing report; the two reports use the same test.
C3_NotRealNeverCounted ==
    /\ op = "refresh" =>
          \A u \in excluded : \A i \in 1..Len(Emitted) : Emitted[i].speedGraderUrl # u
    /\ op = "missing" => submittedIds \subseteq realIds
    /\ \A s \in Submissions : ReallySubmitted(s) <=> ~NotSubmitted(s)

\* a finished run that saw submissions that are not real, and reported others
C3_Witness ==
    /\ op = "refresh" /\ pc = "done"
    /\ Cardinality(excluded) >= 2
    /\ all # <<>>

\* C4: a failed course-name, assignment-list or submissions request never
\* aborts the run of fetchCanvasSubmissions_: only a settings error ends it
\* early, and every qualifying submission that upstream did deliver has its
\* record in the output.
C4_FailureNeverAborts ==
    op = "refresh" =>
        /\ pc = "error" => ~settings.ok /\ requests = 0
        /\ failed # {} => pc \in {"names", "assignments", "subs", "sort", "done",
                                  "empty", "shown"}
        /\ \A e \in expected : \E i \in 1..Len(Emitted) :
              /\ Emitted[i].speedGraderUrl = e.url
              /\ Emitted[i].submittedDate = e.submittedDate
        /\ pc = "done" => Len(all) = Cardinality(expected)

\* a run that returned records although a request of each kind had failed
C4_Witness ==
    /\ op = "refresh" /\ pc = "done"
    /\ failed = {"name", "assignments", "submissions"}
    /\ all # <<>>

\* C8: with showOnlyUngraded set, no record of the recent report is graded.
C8_UngradedOnly ==
    (op = "refresh" /\ settings.showOnlyUngraded) =>
        \A i \in 1..Len(Emitted) : ~Emitted[i].isGraded

\* a finished run with the flag set that returned several records
C8_Witness ==
    /\ op = "refresh" /\ pc = "done"
    /\ settings.showOnlyUngraded
    /\ Len(all) >= 2
    /\ requests >= 5

---------------------------------------------------------------------------
(* Properties of getSettings.                                              *)

\* C5: every configuration getSettings returns has a non-empty courseIds
\* list, a non-empty baseUrl and a non-empty apiToken.
C5_ReturnedSettingsComplete ==
    (op = "reload" /\ pc = "done" /\ settings.ok) =>
        /\ settings.courseIds # <<>>
        /\ settings.baseUrl # ""
        /\ settings.apiToken # ""

---------------------------------------------------------------------------
(* Properties of the Missing Submissions report.                           *)

\* appendMissingForCourse_ is at work on the course at index ci
InCourse == op = "missing" /\ pc \in {"raw", "courseend"}

\* the assignment whose rows were written last, if the course has one yet
LatestAssignment ==
    IF pc = "raw" /\ ai > 1 THEN Some(assignments[ai - 1])
    ELSE IF pc = "courseend" /\ assignments # <<>> THEN Some(assignments[ai])
    ELSE Absent

\* the students the sheet reports missing for an assignment
ReportedMissing(asmtId) ==
    {sheetRows[i].student :
        i \in {k \in 1..Len(sheetRows) :
                  sheetRows[k].kind = "missing" /\ sheetRows[k].asmt = asmtId}}

RosterIds == {students[j].id : j \in 1..Len(students)}

\* C2, as stated: for a roster that upstream delivered, the students
\* reported missing and the users with a real submission partition the
\* roster (missing \cup submitted = roster, missing \cap submitted = {}).
C2_PartitionOfRoster ==
    (InCourse /\ Has(LatestAssignment) /\ "roster" \notin failed) =>
        LET m == ReportedMissing(Val(LatestAssignment).id)
        IN  /\ m \cap realIds = {}
            /\ m \cup realIds = RosterIds

\* C2, amended: the students reported missing are exactly the roster
\* students without a real submission; they and the roster students with
\* one partition the roster.  A submitter may be off the roster.
C2_MissingIsRosterMinusSubmitted ==
    (InCourse /\ Has(LatestAssignment)) =>
        LET m == ReportedMissing(Val(LatestAssignment).id)
        IN  /\ m = RosterIds \ realIds
            /\ m \cap realIds = {}
            /\ m \cup (realIds \cap RosterIds) = RosterIds

\* an assignment of a course of two students: one submitted, the other is
\* the one reported missing
C2_Witness ==
    /\ InCourse /\ Has(LatestAssignment)
    /\ Cardinality(RosterIds) = 2
    /\ Cardinality(realIds) = 1
    /\ ReportedMissing(Val(LatestAssignment).id) = RosterIds \ realIds

\* the assignment groups of the current course section, in sheet order
GroupRows ==
    SelectSeq(sheetRows, LAMBDA r : /\ r.course = courseList[ci]
                                    /\ r.kind \in {"title", "nomissing"})

\* created_at of an assignment of the current course, as upstream sent it
CreatedOf(asmtId) ==
    LET k == CHOOSE j \in 1..Len(rawAssignments) : rawAssignments[j].id = asmtId
    IN  rawAssignments[k].created_at

\* a comes no later than b in the order "newest first, undated last"
NotAfter(a, b) == Has(b) => (Has(a) /\ Val(a) >= Val(b))

\* C6: within a course section the assignment groups are in non-increasing
\* order of created_at, the assignments without created_at after all others.
C6_GroupsNewestFirst ==
    InCourse =>
        \A i \in 1..Len(GroupRows) : \A j \in i..Len(GroupRows) :
           NotAfter(CreatedOf(GroupRows[i].asmt), CreatedOf(GroupRows[j].asmt))

\* a finished section of two dated groups that upstream listed oldest first
C6_Witness ==
    /\ InCourse /\ pc = "courseend"
    /\ Len(GroupRows) = 2
    /\ rawAssignments[1].id = GroupRows[2].asmt
    /\ Has(CreatedOf(GroupRows[2].asmt))
    /\ CreatedOf(GroupRows[1].asmt) # CreatedOf(GroupRows[2].asmt)

\* C7: the assignments processed for a course are exactly the first N of
\* the created_at-descending order (all when there are fewer than N), and
\* all of them for the limit 'ALL'.
C7_TopNProcessed ==
    InCourse =>
        LET raw  == {rawAssignments[j] : j \in 1..Len(rawAssignments)}
            kept == {assignments[j] : j \in 1..Len(assignments)}
        IN  /\ kept \subseteq raw
            /\ Cardinality(kept) = Len(assignments)
            /\ Len(assignments) = IF maxAssignments.isAll THEN Len(rawAssignments)
                                  ELSE Min(maxAssignments.n, Len(rawAssignments))
            /\ \A a \in kept : \A b \in raw \ kept : NotAfter(a.created_at, b.created_at)
            /\ \A i \in 1..Len(assignments) : \A j \in i..Len(assignments) :
                  NotAfter(assignments[i].created_at, assignments[j].created_at)
            /\ pc = "courseend" /\ assignments # <<>> =>
                  /\ Len(GroupRows) = Len(assignments)
                  /\ \A i \in 1..Len(GroupRows) : GroupRows[i].asmt = assignments[i].id

\* a section limited to fewer assignments than upstream listed, the one
\* upstream listed first being the one left out
C7_Witness ==
    /\ InCourse /\ pc = "courseend"
    /\ ~maxAssignments.isAll
    /\ Len(rawAssignments) > maxAssignments.n
    /\ Len(GroupRows) = maxAssignments.n
    /\ \A i \in 1..Len(assignments) : assignments[i] # rawAssignments[1]

\* C9: a continue/cancel decision is pending only after a clock reading past
\* MAX_MS with a course still to process; a course that follows such a
\* reading is processed only once the caller has chosen OK at that point;
\* the run ends only with every course processed or with a declined decision.
C9_DecisionBeforeNextCourse ==
    op = "missing" =>
        /\ pc = "prompt" => (elapsed > MAX_MS /\ ci < Len(courseList))
        /\ (pc \in {"course", "roster", "list", "raw", "courseend"}
              /\ ci > 1 /\ elapsed > MAX_MS) => okAt = ci - 1
        /\ (pc = "done" /\ courseList # <<>>) => (ci = Len(courseList) /\ ~cancelled)
        /\ pc = "cancelled" => (cancelled /\ elapsed > MAX_MS /\ ci < Len(courseList))

\* the third course was processed after the caller chose OK at the second
\* checkpoint, and the run then ends past the budget without a decision
C9_Witness ==
    /\ op = "missing" /\ pc = "done"
    /\ Len(courseList) = 3 /\ ci = 3
    /\ okAt = 2
    /\ elapsed > MAX_MS
    /\ processed = 1

\* C10: once the caller has declined to continue, no upstream request is
\* issued and the sheet's rows stay as they were at the decision.
C10_CancelStopsEverything ==
    [][cancelled' => (sheetRows' = sheetRows /\ requests' = requests)]_vars

\* the caller declined after the first of three courses, whose rows are on
\* the sheet
C10_Witness ==
    /\ op = "missing" /\ pc = "cancelled" /\ cancelled
    /\ ci = 1 /\ Len(courseList) = 3
    /\ \E i \in 1..Len(sheetRows) : sheetRows[i].kind = "missing"
    /\ \A i \in 1..Len(sheetRows) : sheetRows[i].course \in {"", courseList[1]}

---------------------------------------------------------------------------
(* Properties of the operations as a whole.                                *)

\* C11: when getSettings fails, refreshSubmissions, startMissingSubmissions
\* and openMissingSubmissionsDialog end at once: no upstream request has
\* been issued, the Day tabs are as they were and the Missing Submissions
\* sheet is not cleared; nothing happens after the error.
C11_SettingsFailureAbortsFirst ==
    [][/\ pc # "error"
       /\ (/\ op \in {"refresh", "missing", "dialog"}
           /\ pc = "start" /\ pc' # "rejected"
           /\ ~settings'.ok)
          => /\ pc' = "error"
             /\ requests' = 0
             /\ dayTabs' = dayTabs
             /\ sheetRows' = sheetRows]_vars

\* startMissingSubmissions has ended on a settings error, with the rows of
\* an earlier run still on the sheet
C11_Witness ==
    /\ op = "missing" /\ pc = "error"
    /\ ~settings.ok
    /\ sheetRows = <<StaleRow>>
    /\ dayTabs = TabsOf({1, 3, 5})
    /\ requests = 0

\* C12: canvasFetch_ decides by the status first, then by the body: 401 and
\* 403 throw the authorisation error whatever the body; any other status
\* outside 200..299 throws the upstream error with the status code; a 2xx
\* with an empty body returns null; a 2xx with a malformed body throws the
\* parse error; only a 2xx with a well-formed body returns the parsed value.
C12_StatusThenBody ==
    (op = "fetch" /\ pc = "done") =>
        LET code == response.code
            body == response.body
            ok2xx == code >= 200 /\ code <= 299
        IN  /\ code \in {401, 403} => result.threw = "auth"
            /\ (code \notin {401, 403} /\ ~ok2xx) =>
                  (result.threw = "upstream" /\ result.code = code)
            /\ (ok2xx /\ body.kind = "empty") => (result.threw = "none" /\ result.isNull)
            /\ (ok2xx /\ body.kind = "malformed") => result.threw = "decode"
            /\ (ok2xx /\ body.kind = "json") =>
                  (result.threw = "none" /\ ~result.isNull /\ result.value = body.value)
            /\ (result.threw = "none" /\ ~result.isNull) => (ok2xx /\ body.kind = "json")

\* a 403 with a malformed body has been answered with the authorisation error
C12_Witness ==
    /\ op = "fetch" /\ pc = "done"
    /\ response.code = 403 /\ response.body.kind = "malformed"
    /\ result.threw = "auth"

\* the rows of given kinds that the sheet holds for an assignment
RowsOfAssignment(asmtId, kinds) ==
    {k \in 1..Len(sheetRows) : sheetRows[k].asmt = asmtId /\ sheetRows[k].kind \in kinds}

\* C13: a resource whose request failed is skipped: an assignment whose
\* submissions request failed gets no missing-student row and no "no missing
\* submissions" row, and in a course whose roster request failed no
\* assignment is reported as having no missing submissions.
C13_FailedFetchIsSkipped ==
    (InCourse /\ Has(LatestAssignment)) =>
        /\ "submissions" \in failed =>
              RowsOfAssignment(Val(LatestAssignment).id, {"missing", "nomissing"}) = {}
        /\ "roster" \in failed =>
              \A k \in 1..Len(sheetRows) :
                 sheetRows[k].course = courseList[ci] => sheetRows[k].kind # "nomissing"

\* the triggers of a list that run refreshSubmissions, and the others
RefreshTriggers(list) == SelectSeq(list, LAMBDA t : t.handler = "refreshSubmissions")
OtherTriggers(list) == SelectSeq(list, LAMBDA t : t.handler # "refreshSubmissions")

\* a trigger list without the ids: what runs, and when
Schedules(list) ==
    [j \in 1..Len(list) |-> [handler |-> list[j].handler, schedule |-> list[j].schedule]]

\* C14: after every call of setupDailyTrigger exactly one trigger runs
\* refreshSubmissions, the triggers of other handlers are the ones there
\* were, and a call after the first leaves the same triggers as before it.
C14_ExactlyOneDailyTrigger ==
    [][op = "trigger" =>
          /\ Len(RefreshTriggers(triggers')) = 1
          /\ OtherTriggers(triggers') = OtherTriggers(triggers)
          /\ runs >= 1 => Schedules(triggers') = Schedules(triggers)]_vars

\* two calls from a project of three triggers, the second of which ran
\* refreshSubmissions
C14_Witness ==
    /\ op = "trigger" /\ runs = 2
    /\ {triggers[j].uid : j \in 1..Len(triggers)} = {1, 3, 102}

\* what the tabs named 'Day i' hold
ContentOf(tabs, i) == {tabs[k].content : k \in {j \in 1..Len(tabs) : tabs[j].name = DayName(i)}}

\* at most five Day tabs, named 'Day 1'..'Day 5', no name twice
WellFormedTabs(tabs) ==
    /\ Len(tabs) <= 5
    /\ \A j \in 1..Len(tabs) : \E i \in 1..5 : tabs[j].name = DayName(i)
    /\ \A j \in 1..Len(tabs) : \A k \in 1..Len(tabs) :
          tabs[j].name = tabs[k].name => j = k

\* C15: a rotation never renames or inserts onto a name in use; it drops
\* the old 'Day 5', turns every old 'Day i' (i in 1..4) into 'Day i+1' with
\* its content, and adds a new 'Day 1'; the Day tabs stay at most five with
\* distinct names; the tabs change in no other way, and a refresh that
\* found no submission does not rotate.
C15_RotationKeepsTabsWellFormed ==
    [][/\ ~renameClash'
       /\ WellFormedTabs(dayTabs')
       /\ runs' = runs + 1 /\ op \in {"refresh", "rotate"} =>
             /\ \A i \in 1..4 : ContentOf(dayTabs', i + 1) = ContentOf(dayTabs, i)
             /\ ContentOf(dayTabs', 1) = {FreshContent(runs')}
       /\ dayTabs' # dayTabs => runs' = runs + 1
       /\ (op = "refresh" /\ pc = "done" /\ all = <<>>) =>
             (dayTabs' = dayTabs /\ runs' = runs /\ pc' = "empty")]_vars

\* two rotations from the tabs 'Day 1', 'Day 3', 'Day 5': the old 'Day 5' is
\* gone, the old 'Day 3' is 'Day 5', the old 'Day 1' is 'Day 3'
C15_Witness ==
    /\ op = "rotate" /\ runs = 2
    /\ Len(dayTabs) = 4
    /\ ContentOf(dayTabs, 5) = {3}
    /\ ContentOf(dayTabs, 3) = {1}
    /\ ContentOf(dayTabs, 4) = {}

\* C16: the budget runs from the start of the operation and is not started
\* again by a choice to continue: once a reading of the clock was past
\* MAX_MS, every course processed after it, except the last, is followed by
\* a decision; and the count of finished courses shown at a decision is the
\* number of courses processed since the operation began.
C16_BudgetAndCountFromStart ==
    [][/\ (op = "missing" /\ pc = "courseend" /\ elapsed > MAX_MS) =>
             (pc' = "prompt" <=> ci < Len(courseList))
       /\ (op = "missing" /\ pc' = "prompt") => processed' = ci']_vars

===========================================================================
